---------------------------- MODULE Spec2Model ----------------------------
(***************************************************************************)
(* Model of the CanSat telemetry decoder (src/decoder.py).                 *)
(*                                                                         *)
(* parse_telemetry_packet is a pure function of a byte buffer; it is the   *)
(* operator parse_telemetry_packet below, applied by the action Parse to   *)
(* buffers drawn from a bounded set.  process_hex_file is the state        *)
(* machine of SpecBatch: read, clean, truncate, the per-packet loop, and   *)
(* the DataFrame / CSV step.  A text is a sequence of characters, each a    *)
(* string.                                                                 *)
(*                                                                         *)
(* Python integers are unbounded and the three 32-bit words of the packet  *)
(* (alt_lat1, lat_lon1, lon_flags) exceed the checker's integer range, so  *)
(* a non-negative Python integer is held as its little-endian binary       *)
(* numeral (a sequence of 0/1, leading zeros allowed) and &, |, << and >>  *)
(* work on numerals.  IntOf gives the number a numeral denotes; it is used *)
(* only where the code's value has at most 30 bits.                        *)
(***************************************************************************)
EXTENDS Integers, Sequences, FiniteSets, TLC

VARIABLES
    data,           \* parse_telemetry_packet: the argument `data`
    result,         \* parse_telemetry_packet: what the call produced
    fields,         \* the field values handed to the reference encoder
    input_file,     \* process_hex_file: the file named by input_file
    raw_data,       \* process_hex_file: the text read from input_file
    clean_hex,      \* process_hex_file: clean_hex
    total_len,      \* process_hex_file: total_len
    packet_count,   \* process_hex_file: packet_count
    i,              \* process_hex_file: the loop variable
    packets,        \* process_hex_file: packets
    printed,        \* process_hex_file: the lines printed so far
    df,             \* process_hex_file: the rows written to output_csv / returned
    pc              \* process_hex_file: position in the function

vars == <<data, result, fields, input_file, raw_data, clean_hex, total_len, packet_count,
          i, packets, printed, df, pc>>

-----------------------------------------------------------------------------
(* Bounds of the model.                                                    *)

\* Buffers handed to parse_telemetry_packet have 0..MaxLen bytes.
MaxLen == 38

\* Byte and field values are taken within Spread of each boundary value.
Spread == 1

\* An input file holds up to MaxPackets whole packets ...
MaxPackets == 2

\* ... and a tail of up to MaxTail hex characters, or that many short of a packet.
MaxTail == 1

-----------------------------------------------------------------------------
(* Python integers as binary numerals.                                     *)

Min(a, b) == IF a <= b THEN a ELSE b
Max(a, b) == IF a >= b THEN a ELSE b

\* The bit of weight 2^(k-1) of numeral x.
Bit(x, k) == IF k <= Len(x) THEN x[k] ELSE 0

\* x & y
BitAnd(x, y) == [k \in 1..Min(Len(x), Len(y)) |-> x[k] * y[k]]

\* x | y
BitOr(x, y) ==
    [k \in 1..Max(Len(x), Len(y)) |-> IF Bit(x, k) = 1 \/ Bit(y, k) = 1 THEN 1 ELSE 0]

\* x >> n
Shr(x, n) == [k \in 1..Max(Len(x) - n, 0) |-> x[k + n]]

\* x << n
Shl(x, n) == [k \in 1..(Len(x) + n) |-> IF k <= n THEN 0 ELSE x[k - n]]

\* The numeral of a hexadecimal mask of w one bits: 0x03, 0xFF, 0x3FFF, ...
Ones(w) == [k \in 1..w |-> 1]

RECURSIVE IntFrom(_, _)
IntFrom(x, k) == IF k > Len(x) THEN 0 ELSE x[k] + 2 * IntFrom(x, k + 1)

\* The number numeral x denotes.
IntOf(x) == IntFrom(x, 1)

\* s[a:b] for 0 <= a <= b; the slice ends where s ends.
Slice(s, a, b) == SubSeq(s, a + 1, Min(b, Len(s)))

\* int.from_bytes(bs, 'little')
from_bytes_little(bs) ==
    [k \in 1..(8 * Len(bs)) |-> (bs[((k - 1) \div 8) + 1] \div (2 ^ ((k - 1) % 8))) % 2]

\* One '<h' item of struct.unpack: two bytes, little-endian, signed 16-bit.
unpack_h(bs) ==
    LET u == bs[1] + 256 * bs[2]
    IN  IF u >= 32768 THEN u - 65536 ELSE u

\* struct.unpack('<3h', bs)
unpack_3h(bs) ==
    <<unpack_h(Slice(bs, 0, 2)), unpack_h(Slice(bs, 2, 4)), unpack_h(Slice(bs, 4, 6))>>

-----------------------------------------------------------------------------
(* parse_telemetry_packet                                                  *)

\* Mutant: the sign test with > for >=.
SignAdjust_Strict(x, half) == IF x > half THEN x - 2 * half ELSE x

\* if x >= half: x -= 2 * half      (lines 34-35, 47-48, 52-53, 57-58)
SignAdjust(x, half) == IF x >= half THEN x - 2 * half ELSE x

\* Mutant: the temperature mask one bit short (0x1FFF).
temp_cC_of_Mask13(temp_press) == SignAdjust(IntOf(BitAnd(temp_press, Ones(13))), 8192)

temp_cC_of(temp_press) == SignAdjust(IntOf(BitAnd(temp_press, Ones(14))), 8192)

\* Mutant: the pressure cut to 16 bits.
pressPa_of_16bit(temp_press, press_p2) ==
    LET press_p1 == BitAnd(Shr(temp_press, 14), Ones(2))
    IN  IntOf(BitAnd(BitOr(Shl(press_p2, 2), press_p1), Ones(16)))

pressPa_of(temp_press, press_p2) ==
    LET press_p1 == BitAnd(Shr(temp_press, 14), Ones(2))
    IN  IntOf(BitOr(Shl(press_p2, 2), press_p1))

altitude_cm_of(alt_lat1) == SignAdjust(IntOf(BitAnd(alt_lat1, Ones(20))), 524288)

\* Mutant: alt_lat1 shifted by 24 for 20.
lat_1e7_of_AltShift24(alt_lat1, lat_lon1) ==
    SignAdjust(IntOf(BitOr(Shl(BitAnd(lat_lon1, Ones(26)), 4), Shr(alt_lat1, 24))),
               536870912)

\* Mutant: latitude sign-extended at 31 bits.
lat_1e7_of_Bias31(alt_lat1, lat_lon1) ==
    SignAdjust(IntOf(BitOr(Shl(BitAnd(lat_lon1, Ones(26)), 4), Shr(alt_lat1, 20))),
               1073741824)

lat_1e7_of(alt_lat1, lat_lon1) ==
    SignAdjust(IntOf(BitOr(Shl(BitAnd(lat_lon1, Ones(26)), 4), Shr(alt_lat1, 20))),
               536870912)

\* Mutant: lat_lon1 shifted by 27 for 26.
lon_1e7_of_Shift27(lat_lon1, lon_flags) ==
    SignAdjust(IntOf(BitOr(Shr(lon_flags, 8), Shl(Shr(lat_lon1, 27), 24))),
               536870912)

lon_1e7_of(lat_lon1, lon_flags) ==
    SignAdjust(IntOf(BitOr(Shr(lon_flags, 8), Shl(Shr(lat_lon1, 26), 24))),
               536870912)

\* Mutant: the flags mask one bit wide (0x1FF).
flags_of_Mask9(lon_flags) == IntOf(BitAnd(lon_flags, Ones(9)))

flags_of(lon_flags) == IntOf(BitAnd(lon_flags, Ones(8)))

\* The TelemetryPacket built from a 36-byte buffer (lines 30-68).
TelemetryPacket(d) ==
    LET temp_press == from_bytes_little(Slice(d, 3, 5))
        press_p2   == from_bytes_little(Slice(d, 5, 7))
        mag        == unpack_3h(Slice(d, 7, 13))
        accel      == unpack_3h(Slice(d, 13, 19))
        gyro       == unpack_3h(Slice(d, 19, 25))
        alt_lat1   == from_bytes_little(Slice(d, 25, 29))
        lat_lon1   == from_bytes_little(Slice(d, 28, 32))
        lon_flags  == from_bytes_little(Slice(d, 32, 36))
    IN  [time_ms     |-> IntOf(from_bytes_little(Slice(d, 0, 3))),
         temp_cC     |-> temp_cC_of(temp_press),
         pressPa     |-> pressPa_of(temp_press, press_p2),
         mag_x       |-> mag[1],
         mag_y       |-> mag[2],
         mag_z       |-> mag[3],
         accel_x     |-> accel[1],
         accel_y     |-> accel[2],
         accel_z     |-> accel[3],
         gyro_x      |-> gyro[1],
         gyro_y      |-> gyro[2],
         gyro_z      |-> gyro[3],
         altitude_cm |-> altitude_cm_of(alt_lat1),
         lat_1e7     |-> lat_1e7_of(alt_lat1, lat_lon1),
         lon_1e7     |-> lon_1e7_of(lat_lon1, lon_flags),
         flags       |-> flags_of(lon_flags)]

\* Mutant: only short buffers rejected.
LengthOk_AtLeast(d) == Len(d) >= 36

\* Mutant: the length counted in hex characters.
LengthOk_HexChars(d) == Len(d) = 72

\* The length test of lines 27-28.
LengthOk(d) == Len(d) = 36

\* What a call returns or raises.  ValueError carries the length it reports.
parse_telemetry_packet(d) ==
    IF ~LengthOk(d)
    THEN [kind |-> "ValueError", got |-> Len(d)]
    ELSE [kind |-> "ok", frame |-> TelemetryPacket(d)]

NoResult == [kind |-> "none"]

FieldNames ==
    {"time_ms", "temp_cC", "pressPa", "mag_x", "mag_y", "mag_z",
     "accel_x", "accel_y", "accel_z", "gyro_x", "gyro_y", "gyro_z",
     "altitude_cm", "lat_1e7", "lon_1e7", "flags"}

-----------------------------------------------------------------------------
(* Single fields of the packet a buffer decodes to, for comparing the      *)
(* decodes of two buffers field by field.                                  *)

altitude_cm_at(d) == altitude_cm_of(from_bytes_little(Slice(d, 25, 29)))

lat_1e7_at(d) ==
    lat_1e7_of(from_bytes_little(Slice(d, 25, 29)), from_bytes_little(Slice(d, 28, 32)))

lon_1e7_at(d) ==
    lon_1e7_of(from_bytes_little(Slice(d, 28, 32)), from_bytes_little(Slice(d, 32, 36)))

flags_at(d) == flags_of(from_bytes_little(Slice(d, 32, 36)))

-----------------------------------------------------------------------------
(* The reference encoder: the inverse of the bit layout of section 4.1 of  *)
(* the specification.  The repository only decodes; the encoder is the     *)
(* test oracle the round-trip property asks for.  It works on numbers, not *)
(* on numerals, so that it shares nothing with the decoder.                *)

\* The two's-complement code of v at width w.
Raw(v, w) == v % (2 ^ w)

\* Byte n (0-based) of the little-endian form of x.
ByteOf(x, n) == (x \div (256 ^ n)) % 256

encode_frame(f) ==
    LET temp == Raw(f.temp_cC, 14)
        alt  == Raw(f.altitude_cm, 20)
        lat  == Raw(f.lat_1e7, 30)
        lon  == Raw(f.lon_1e7, 30)
        tp   == temp + 16384 * (f.pressPa % 4)
        p2   == f.pressPa \div 4
        s16(v) == Raw(v, 16)
    IN  << ByteOf(f.time_ms, 0), ByteOf(f.time_ms, 1), ByteOf(f.time_ms, 2),
           ByteOf(tp, 0), ByteOf(tp, 1),
           ByteOf(p2, 0), ByteOf(p2, 1),
           ByteOf(s16(f.mag_x), 0), ByteOf(s16(f.mag_x), 1),
           ByteOf(s16(f.mag_y), 0), ByteOf(s16(f.mag_y), 1),
           ByteOf(s16(f.mag_z), 0), ByteOf(s16(f.mag_z), 1),
           ByteOf(s16(f.accel_x), 0), ByteOf(s16(f.accel_x), 1),
           ByteOf(s16(f.accel_y), 0), ByteOf(s16(f.accel_y), 1),
           ByteOf(s16(f.accel_z), 0), ByteOf(s16(f.accel_z), 1),
           ByteOf(s16(f.gyro_x), 0), ByteOf(s16(f.gyro_x), 1),
           ByteOf(s16(f.gyro_y), 0), ByteOf(s16(f.gyro_y), 1),
           ByteOf(s16(f.gyro_z), 0), ByteOf(s16(f.gyro_z), 1),
           ByteOf(alt, 0), ByteOf(alt, 1),
           (alt \div 65536) + 16 * (lat % 16),
           (lat \div 16) % 256, (lat \div 4096) % 256, (lat \div 1048576) % 256,
           (lat \div 268435456) + 4 * (lon \div 16777216),
           f.flags,
           ByteOf(lon, 0), ByteOf(lon, 1), ByteOf(lon, 2) >>

-----------------------------------------------------------------------------
(* The buffers the decoder is applied to.                                  *)

\* Byte values at and next to every bit boundary, and their complements.
ByteVals ==
    {b \in 0..255 : \E e \in 0..8, s \in 0..Spread :
                        b = 2 ^ e - s \/ b = 255 - (2 ^ e - s)}

\* Every other byte of a test buffer has one of these values.
Fills == {0, 165, 255}

\* The values of the byte after the one that takes every value of ByteVals.
PairVals == {0, 127, 128, 255}

\* A buffer of n bytes, all f except bytes p and p+1 (0-based), which are v and w.
Buffer(n, f, p, v, w) ==
    [k \in 1..n |-> IF k = p + 1 THEN v ELSE IF k = p + 2 THEN w ELSE f]

Buffers36 ==
    {Buffer(36, f, p, v, w) : f \in Fills, p \in 0..35, v \in ByteVals, w \in PairVals}

BuffersOther ==
    {Buffer(n, f, 0, v, f) : n \in (0..MaxLen) \ {36}, f \in Fills, v \in {0, 1, 255}}

\* d with byte p (0-based) replaced by v.
WithByte(d, p, v) == [d EXCEPT ![p + 1] = v]

\* Byte b with bit k flipped.
FlipBit(b, k) == IF (b \div (2 ^ k)) % 2 = 1 THEN b - 2 ^ k ELSE b + 2 ^ k

Zeros36 == [k \in 1..36 |-> 0]

NoFields == [time_ms |-> 0]

NoFile == [exists |-> FALSE]

NoFrame == [rows |-> <<>>, returned |-> FALSE]

BatchIdle ==
    /\ input_file = NoFile
    /\ raw_data = <<>>
    /\ clean_hex = <<>>
    /\ total_len = 0
    /\ packet_count = 0
    /\ i = 0
    /\ packets = <<>>
    /\ printed = <<>>
    /\ df = NoFrame

-----------------------------------------------------------------------------
(* Spec: parse_telemetry_packet applied to each buffer.                    *)

Init ==
    /\ data \in Buffers36 \cup BuffersOther
    /\ result = NoResult
    /\ fields = NoFields
    /\ pc = "parse"
    /\ BatchIdle

\* One call of parse_telemetry_packet(data).
Parse ==
    /\ pc = "parse"
    /\ result' = parse_telemetry_packet(data)
    /\ pc' = "done"
    /\ UNCHANGED <<data, fields, input_file, raw_data, clean_hex, total_len, packet_count,
                   i, packets, printed, df>>

Next == Parse

Spec == Init /\ [][Next]_vars

Decoded == result.kind = "ok"

-----------------------------------------------------------------------------
(* C1: a buffer whose length is not 36 makes the call raise the length     *)
(* error, which reports the buffer's actual length, and no frame is        *)
(* returned.                                                               *)
C1_WrongLengthRaises ==
    (pc = "done" /\ Len(data) # 36) =>
        /\ result.kind = "ValueError"
        /\ result.got = Len(data)
        /\ "frame" \notin DOMAIN result

C1_Witness == pc = "done" /\ Len(data) = 37 /\ result.kind = "ValueError"

C1_WitnessEmpty == pc = "done" /\ data = <<>> /\ result.kind = "ValueError"

(* C3 as stated: in a buffer that is zero except for byte 28, both         *)
(* altitude_cm and lat_1e7 differ from their values for the zero buffer.   *)
OnlyByte28(d) ==
    /\ Len(d) = 36
    /\ d[29] # 0
    /\ \A k \in 1..36 : k # 29 => d[k] = 0

C3_Original ==
    (Decoded /\ OnlyByte28(data)) =>
        /\ result.frame.altitude_cm # altitude_cm_at(Zeros36)
        /\ result.frame.lat_1e7 # lat_1e7_at(Zeros36)

(* C3, amended: in a buffer that is zero except for byte 28, lat_1e7 is    *)
(* 16 times byte 28 (both reads of the byte land on latitude bits 4..11)   *)
(* and so differs from the zero buffer's, while altitude_cm and every      *)
(* other field stay 0.                                                     *)
C3_Byte28OnlyLatitude ==
    (Decoded /\ OnlyByte28(data)) =>
        /\ result.frame.lat_1e7 = 16 * data[29]
        /\ result.frame.lat_1e7 # lat_1e7_at(Zeros36)
        /\ result.frame.altitude_cm = altitude_cm_at(Zeros36)
        /\ \A n \in FieldNames \ {"lat_1e7"} : result.frame[n] = 0

C3_Witness == Decoded /\ OnlyByte28(data) /\ data[29] = 255 /\ result.frame.lat_1e7 = 4080

(* C4 as stated: pressPa is an unsigned 16-bit value.                      *)
C4_Original == Decoded => (0 <= result.frame.pressPa /\ result.frame.pressPa <= 65535)

(* C4, amended: pressPa is an unsigned 18-bit value, 0..262143: the word   *)
(* of bytes 5-6 shifted left by 2, OR the top 2 bits of the word of bytes  *)
(* 3-4.                                                                    *)
C4_PressureIs18Bit ==
    Decoded =>
        /\ result.frame.pressPa = 4 * (data[6] + 256 * data[7]) + (data[5] \div 64)
        /\ 0 <= result.frame.pressPa
        /\ result.frame.pressPa <= 262143

C4_Witness == Decoded /\ result.frame.pressPa = 262143

-----------------------------------------------------------------------------
(* The packed subfields, read off the bytes by arithmetic.                 *)

RawTemp(d) == (d[4] + 256 * d[5]) % 16384
RawAlt(d)  == (d[26] + 256 * d[27] + 65536 * d[28]) % 1048576
RawLat(d)  == (d[28] \div 16) + 16 * d[29] + 4096 * d[30] + 1048576 * d[31]
                  + 268435456 * (d[32] % 4)
RawLon(d)  == d[34] + 256 * d[35] + 65536 * d[36] + 16777216 * (d[32] \div 4)

\* The value of the w-bit two's-complement code raw.
Signed(raw, w) == IF raw < 2 ^ (w - 1) THEN raw ELSE raw - 2 ^ w

(* C5: every packed signed field is sign-extended at its declared width:   *)
(* temp_cC at 14 bits, altitude_cm at 20, lat_1e7 and lon_1e7 at 30; raw   *)
(* temperature 0x2000 gives -8192 and 0x1FFF 8191, raw altitude 0x80000    *)
(* gives -524288 and 0x7FFFF 524287.                                       *)
C5_SignExtendAtDeclaredWidth ==
    Decoded =>
        /\ result.frame.temp_cC = Signed(RawTemp(data), 14)
        /\ result.frame.altitude_cm = Signed(RawAlt(data), 20)
        /\ result.frame.lat_1e7 = Signed(RawLat(data), 30)
        /\ result.frame.lon_1e7 = Signed(RawLon(data), 30)
        /\ (RawTemp(data) = 8192 => result.frame.temp_cC = -8192)
        /\ (RawTemp(data) = 8191 => result.frame.temp_cC = 8191)
        /\ (RawAlt(data) = 524288 => result.frame.altitude_cm = -524288)
        /\ (RawAlt(data) = 524287 => result.frame.altitude_cm = 524287)

C5_Witness == Decoded /\ RawTemp(data) = 8192 /\ result.frame.temp_cC = -8192

C5_WitnessTempMax == Decoded /\ RawTemp(data) = 8191 /\ result.frame.temp_cC = 8191

C5_WitnessAltMin == Decoded /\ RawAlt(data) = 524288 /\ result.frame.altitude_cm = -524288

C5_WitnessAltMax == Decoded /\ RawAlt(data) = 524287 /\ result.frame.altitude_cm = 524287

(* C6: flags is byte 32 unchanged; changing only byte 32 leaves lon_1e7    *)
(* as it was, and changing only bytes 33-35 or the top 6 bits of byte 31   *)
(* leaves flags as it was.                                                 *)
C6_FlagsAndLongitudeSeparate ==
    Decoded =>
        /\ result.frame.flags = data[33]
        /\ \A v \in Fills \cup {255 - data[33]} :
               lon_1e7_at(WithByte(data, 32, v)) = result.frame.lon_1e7
        /\ \A v \in Fills, w \in Fills, x \in Fills \cup {255 - data[36]} :
               flags_at(WithByte(WithByte(WithByte(data, 33, v), 34, w), 35, x))
                   = result.frame.flags
        /\ \A t \in {0, 63, 63 - (data[32] \div 4)} :
               flags_at(WithByte(data, 31, (data[32] % 4) + 4 * t)) = result.frame.flags

C6_Witness ==
    /\ Decoded
    /\ data[33] = 255 /\ data[34] = 255 /\ data[35] = 255 /\ data[36] = 255
    /\ result.frame.flags = 255

(* C7: every decoded field lies in the range of its declared type.         *)
C7_FieldRanges ==
    Decoded =>
        /\ result.frame.time_ms \in 0..16777215
        /\ result.frame.temp_cC \in -8192..8191
        /\ \A n \in {"mag_x", "mag_y", "mag_z", "accel_x", "accel_y", "accel_z",
                     "gyro_x", "gyro_y", "gyro_z"} : result.frame[n] \in -32768..32767
        /\ result.frame.altitude_cm \in -524288..524287
        /\ result.frame.lat_1e7 \in -536870912..536870911
        /\ result.frame.lon_1e7 \in -536870912..536870911
        /\ result.frame.flags \in 0..255

C7_Witness == Decoded /\ result.frame.lat_1e7 = -536870912

C7_WitnessOverlap == Decoded /\ data[29] = 255 /\ result.frame.lat_1e7 = 536870911

(* C8: a 36-byte buffer always decodes to a frame, never an error, and the *)
(* all-zero buffer decodes to 0 in every field.                            *)
C8_CorrectSizeNeverFails ==
    (pc = "done" /\ Len(data) = 36) =>
        /\ result.kind = "ok"
        /\ DOMAIN result.frame = FieldNames
        /\ (data = Zeros36 => \A n \in FieldNames : result.frame[n] = 0)

C8_Witness == pc = "done" /\ data = Zeros36 /\ result.kind = "ok"

(* C10: parse_telemetry_packet is injective on 36-byte buffers: the        *)
(* buffer is recovered from the decoded fields alone, so no two buffers    *)
(* decode to the same frame and no input bit is dropped; and flipping any   *)
(* bit of the shared byte 28 changes lat_1e7.                              *)
C10_Injective ==
    Decoded =>
        /\ encode_frame(result.frame) = data
        /\ \A k \in 0..7 :
               lat_1e7_at(WithByte(data, 28, FlipBit(data[29], k))) # result.frame.lat_1e7

C10_Witness == Decoded /\ data[28] = 255 /\ data[29] = 255 /\ data[32] = 255

-----------------------------------------------------------------------------
(* SpecRT: frames within the layout's widths, encoded and then decoded.    *)

\* The fields in the order of the layout.
Layout ==
    <<"time_ms", "temp_cC", "pressPa", "mag_x", "mag_y", "mag_z",
      "accel_x", "accel_y", "accel_z", "gyro_x", "gyro_y", "gyro_z",
      "altitude_cm", "lat_1e7", "lon_1e7", "flags">>

FieldWidth(n) ==
    CASE n = "time_ms" -> 24
      [] n = "temp_cC" -> 14
      [] n = "pressPa" -> 18
      [] n = "altitude_cm" -> 20
      [] n \in {"lat_1e7", "lon_1e7"} -> 30
      [] n = "flags" -> 8
      [] OTHER -> 16

FieldSigned(n) == n \notin {"time_ms", "pressPa", "flags"}

FieldMin(n) == IF FieldSigned(n) THEN -(2 ^ (FieldWidth(n) - 1)) ELSE 0

FieldMax(n) ==
    IF FieldSigned(n) THEN 2 ^ (FieldWidth(n) - 1) - 1 ELSE 2 ^ FieldWidth(n) - 1

\* The values of field n within Spread of its ends, of zero and of its middle.
FieldVals(n) ==
    LET mid == IF FieldSigned(n) THEN 0 ELSE 2 ^ (FieldWidth(n) - 1)
    IN  {FieldMin(n) + s : s \in 0..Spread} \cup {FieldMax(n) - s : s \in 0..Spread}
            \cup {mid - 1 - s : s \in 0..Spread} \cup {mid + s : s \in 0..Spread}

BaseVal(n, b) ==
    CASE b = "zero" -> 0
      [] b = "min" -> FieldMin(n)
      [] b = "max" -> FieldMax(n)

\* Field k of the layout is v, the next one is w, the others have their base value.
Frame(b, k, v, w) ==
    [n \in FieldNames |->
        IF n = Layout[k] THEN v
        ELSE IF k < 16 /\ n = Layout[k + 1] THEN w
        ELSE BaseVal(n, b)]

Frames ==
    UNION {{Frame(b, k, v, w) : b \in {"zero", "min", "max"}, v \in FieldVals(Layout[k]),
                                w \in FieldVals(Layout[IF k < 16 THEN k + 1 ELSE k])}
           : k \in 1..16}

InitRT ==
    /\ fields \in Frames
    /\ data = <<>>
    /\ result = NoResult
    /\ pc = "encode"
    /\ BatchIdle

\* The oracle packs `fields` into the 36 bytes handed to the decoder.
EncodeFields ==
    /\ pc = "encode"
    /\ data' = encode_frame(fields)
    /\ pc' = "parse"
    /\ UNCHANGED <<result, fields, input_file, raw_data, clean_hex, total_len, packet_count,
                   i, packets, printed, df>>

NextRT == EncodeFields \/ Parse

SpecRT == InitRT /\ [][NextRT]_vars

(* C2: round trip: a frame whose values fit the layout's widths, encoded   *)
(* into 36 bytes by the inverse of the layout and decoded, comes back with *)
(* exactly its sixteen field values.                                       *)
C2_RoundTrip ==
    (pc = "done") =>
        /\ Len(data) = 36
        /\ result.kind = "ok"
        /\ \A n \in FieldNames : result.frame[n] = fields[n]
        /\ result.frame = fields

C2_Witness ==
    /\ pc = "done"
    /\ fields.altitude_cm = -524288
    /\ fields.lat_1e7 = 536870911
    /\ result.kind = "ok"
    /\ result.frame = fields

-----------------------------------------------------------------------------
(* clean_hex_string and bytes.fromhex                                      *)

\* The literal '0123456789abcdef'.
HexDigits == <<"0", "1", "2", "3", "4", "5", "6", "7", "8", "9",
               "a", "b", "c", "d", "e", "f">>

\* c.lower(), a string: U+0130 lowers to the two characters i, U+0307.
Lower(c) ==
    CASE c = "A" -> <<"a">> [] c = "B" -> <<"b">> [] c = "C" -> <<"c">>
      [] c = "D" -> <<"d">> [] c = "E" -> <<"e">> [] c = "F" -> <<"f">>
      [] c = "G" -> <<"g">> [] c = "X" -> <<"x">>
      [] c = "U+0130" -> <<"i", "U+0307">>
      [] OTHER -> <<c>>

\* t in s, for strings
IsSubstring(t, s) == \E k \in 0..(Len(s) - Len(t)) : SubSeq(s, k + 1, k + Len(t)) = t

\* Mutant: the test without .lower().
clean_hex_string_NoLower(raw_hex) ==
    SelectSeq(raw_hex, LAMBDA c : IsSubstring(<<c>>, HexDigits))

clean_hex_string(raw_hex) ==
    SelectSeq(raw_hex, LAMBDA c : IsSubstring(Lower(c), HexDigits))

\* The value of hex digit c, of either case.
HexVal(c) == (CHOOSE k \in 1..16 : HexDigits[k] = Lower(c)[1]) - 1

IsHexDigit(c) == \E k \in 1..16 : <<HexDigits[k]>> = Lower(c)

\* bytes.fromhex(s) for s without whitespace: two hex digits a byte.
fromhex(s) ==
    IF Len(s) % 2 # 0 \/ \E k \in 1..Len(s) : ~IsHexDigit(s[k])
    THEN [kind |-> "ValueError"]
    ELSE [kind |-> "ok",
          bytes |-> [k \in 1..(Len(s) \div 2) |-> 16 * HexVal(s[2 * k - 1]) + HexVal(s[2 * k])]]

\* Mutant: every packet cut from the start of the text.
PacketHex_First(clean, n) == Slice(clean, 0, 72)

\* clean_hex[i*72:(i+1)*72]
PacketHex(clean, n) == Slice(clean, n * 72, (n + 1) * 72)

\* Mutant: the packet count rounded up.
PacketCount_RoundUp(len) == (len + 71) \div 72

\* total_len // 72
PacketCount(len) == len \div 72

-----------------------------------------------------------------------------
(* The input files.                                                        *)

UpperDigits == <<"0", "1", "2", "3", "4", "5", "6", "7", "8", "9",
                 "A", "B", "C", "D", "E", "F">>

\* The hex text of a byte sequence, in capitals or not.
HexText(bs, upper) ==
    [k \in 1..(2 * Len(bs)) |->
        LET b == bs[(k + 1) \div 2]
            v == IF k % 2 = 1 THEN b \div 16 ELSE b % 16
        IN  IF upper THEN UpperDigits[v + 1] ELSE HexDigits[v + 1]]

Ramp(a) == [k \in 1..36 |-> (a + 29 * k) % 256]

ChunkBuffers == {Ramp(0), [k \in 1..36 |-> 255 - (k % 2)]}

RECURSIVE Concat(_)
Concat(ss) == IF ss = <<>> THEN <<>> ELSE Head(ss) \o Concat(Tail(ss))

\* h with character c put in after every g characters (g = 0: h itself).
Interleave(h, g, c) ==
    IF g = 0 THEN h
    ELSE [m \in 1..(Len(h) + Len(h) \div g) |->
             IF m % (g + 1) = 0 THEN c ELSE h[m - m \div (g + 1)]]

NoiseChars == {"\n", "g", "G", "U+0130"}

TailLens == (0..MaxTail) \cup {71 - s : s \in 0..MaxTail}

Texts ==
    {Interleave(Concat([j \in 1..Len(bufs) |-> HexText(bufs[j], upper)])
                    \o SubSeq(HexText(Ramp(50), upper), 1, t), g, c) :
        bufs \in UNION {[1..n -> ChunkBuffers] : n \in 0..MaxPackets},
        upper \in BOOLEAN, t \in TailLens, g \in {0, 1, 5}, c \in NoiseChars}

-----------------------------------------------------------------------------
(* SpecBatch: process_hex_file                                             *)

InitBatch ==
    /\ input_file \in {[exists |-> TRUE, text |-> t] : t \in Texts} \cup {NoFile}
    /\ raw_data = <<>>
    /\ clean_hex = <<>>
    /\ total_len = 0
    /\ packet_count = 0
    /\ i = 0
    /\ packets = <<>>
    /\ printed = <<>>
    /\ df = NoFrame
    /\ pc = "start"
    /\ data = <<>>
    /\ result = NoResult
    /\ fields = NoFields

\* Lines 75-76 when open() raises: the handler of lines 109-111.
OpenFails ==
    /\ pc = "start"
    /\ ~input_file.exists
    /\ printed' = Append(printed, [line |-> "Error"])
    /\ pc' = "returned"
    /\ UNCHANGED <<data, result, fields, input_file, raw_data, clean_hex, total_len,
                   packet_count, i, packets, df>>

\* Lines 75-88: read, clean, count, drop the partial packet.
ReadAndClean ==
    /\ pc = "start"
    /\ input_file.exists
    /\ LET clean == clean_hex_string(input_file.text)
           count == PacketCount(Len(clean))
           trunc == Len(clean) % 72 # 0
       IN  /\ raw_data' = input_file.text
           /\ total_len' = Len(clean)
           /\ packet_count' = count
           /\ clean_hex' = IF trunc THEN Slice(clean, 0, count * 72) ELSE clean
           /\ printed' = (IF trunc
                          THEN <<[line |-> "Warning: Truncated", n |-> Len(clean) % 72]>>
                          ELSE <<>>)
                         \o <<[line |-> "Processing", n |-> count]>>
    /\ packets' = <<>>
    /\ i' = 0
    /\ pc' = "loop"
    /\ UNCHANGED <<data, result, fields, input_file, df>>

\* Lines 89-95: one turn of the loop.
DecodePacket ==
    /\ pc = "loop"
    /\ i < packet_count
    /\ LET packet_hex == PacketHex(clean_hex, i)
           bytes == fromhex(packet_hex)
           parsed == IF bytes.kind = "ok" THEN parse_telemetry_packet(bytes.bytes)
                     ELSE bytes
       IN  /\ data' = IF bytes.kind = "ok" THEN bytes.bytes ELSE data
           /\ result' = parsed
           /\ IF parsed.kind = "ok"
              THEN /\ packets' = Append(packets, parsed.frame)
                   /\ UNCHANGED printed
              ELSE /\ printed' = Append(printed, [line |-> "Error in packet", n |-> i + 1])
                   /\ UNCHANGED packets
    /\ i' = i + 1
    /\ UNCHANGED <<fields, input_file, raw_data, clean_hex, total_len, packet_count,
                   df, pc>>

\* A row of the DataFrame: the packet's fields and time_s = time_ms / 1000,
\* held as the fraction.
Row(p) == [packet |-> p, time_s |-> <<p.time_ms, 1000>>]

\* Lines 97-111: the DataFrame, its time_s column, the CSV.  An empty DataFrame
\* has no time_ms column and to_csv fails on a path that cannot be written:
\* either way the handler of lines 109-111 prints and None is returned.
SaveCsv ==
    /\ pc = "loop"
    /\ i >= packet_count
    /\ \E writable \in BOOLEAN :
           IF packets # <<>> /\ writable
           THEN /\ df' = [rows |-> [j \in 1..Len(packets) |-> Row(packets[j])],
                          returned |-> TRUE]
                /\ printed' = Append(printed, [line |-> "Data saved"])
           ELSE /\ df' = NoFrame
                /\ printed' = Append(printed, [line |-> "Error"])
    /\ pc' = "returned"
    /\ UNCHANGED <<data, result, fields, input_file, raw_data, clean_hex, total_len,
                   packet_count, i, packets>>

NextBatch == OpenFails \/ ReadAndClean \/ DecodePacket \/ SaveCsv

SpecBatch == InitBatch /\ [][NextBatch]_vars

-----------------------------------------------------------------------------
(* The hex characters of a text, told by membership in the 22 of them.     *)

HexCharSet == {"0", "1", "2", "3", "4", "5", "6", "7", "8", "9",
               "a", "b", "c", "d", "e", "f", "A", "B", "C", "D", "E", "F"}

HexOnly(text) == SelectSeq(text, LAMBDA c : c \in HexCharSet)

\* The characters [72*j, 72*j + 72) of the hex characters h, in lower case.
ChunkLower(h, j) == [k \in 1..72 |-> Lower(h[72 * j + k])[1]]

Warnings == SelectSeq(printed, LAMBDA l : l.line = "Warning: Truncated")

(* C9: with n the number of hex characters of the input text, the loop     *)
(* decodes exactly n div 72 packets, in input order, packet j from the     *)
(* characters [72*j, 72*j + 72) alone; the n mod 72 characters left over   *)
(* are dropped and reported, once, as a truncation of n mod 72 characters, *)
(* and nothing is reported when n mod 72 is 0.                             *)
C9_BatchChunks ==
    (pc \in {"loop", "returned"} /\ input_file.exists) =>
        LET h == HexOnly(input_file.text)
            n == Len(h)
        IN  /\ total_len = n
            /\ packet_count = n \div 72
            /\ Len(clean_hex) = 72 * (n \div 72)
            /\ Len(packets) = i
            /\ i <= n \div 72
            /\ (pc = "returned" => Len(packets) = n \div 72)
            /\ \A j \in 1..Len(packets) :
                   /\ HexText(encode_frame(packets[j]), FALSE) = ChunkLower(h, j - 1)
                   /\ fromhex(HexText(encode_frame(packets[j]), FALSE)).bytes
                          = encode_frame(packets[j])
            /\ (n % 72 # 0 => Warnings = <<[line |-> "Warning: Truncated", n |-> n % 72]>>)
            /\ (n % 72 = 0 => Warnings = <<>>)
            /\ \A k \in 1..Len(printed) : printed[k].line # "Error in packet"
            /\ (df.returned =>
                   /\ Len(df.rows) = n \div 72
                   /\ \A j \in 1..Len(df.rows) : df.rows[j].packet = packets[j])

C9_Witness ==
    /\ pc = "returned"
    /\ input_file.exists
    /\ Len(HexOnly(input_file.text)) = 145
    /\ Len(input_file.text) > 145
    /\ Len(packets) = 2
    /\ packets[1] # packets[2]
    /\ df.returned
    /\ Warnings = <<[line |-> "Warning: Truncated", n |-> 1]>>

C9_Witness144 ==
    /\ pc = "returned"
    /\ input_file.exists
    /\ Len(HexOnly(input_file.text)) = 144
    /\ Len(df.rows) = 2
    /\ Warnings = <<>>

=============================================================================
